---------------------------- MODULE Spec2Model ----------------------------
(***************************************************************************)
(* Model of rlbot/utils/proton_hack.py: the ACFFile line parser and the    *)
(* ProtonHack resolver.                                                    *)
(*                                                                         *)
(* Text is modelled as a sequence of one-character strings, so that the    *)
(* regular expressions, str(), Path() and str.split() are computed on      *)
(* characters.  A parsed dict is an ordered sequence of entries            *)
(* [k |-> key, n |-> node] (Python dicts keep insertion order); a node is  *)
(* Leaf(text) or Obj(dict).                                                *)
(***************************************************************************)
EXTENDS Integers, Sequences, FiniteSets, TLC

VARIABLES
    \* ---- ACFFile._parse ----
    fp,        \* the lines of the file being parsed
    tree,      \* the tree the file was written from (empty for free text)
    sep,       \* the separator the writer put between key and value
               \* (empty for free text)
    pos,       \* the shared line cursor: index of the next line fp yields
    reads,     \* reads[i]: how often line i was yielded by the cursor
    stack,     \* one frame per active _parse call, innermost last
    result,    \* the dict ACFFile.parse() stored
    ppc,       \* "parsing" or "done"
    last,      \* what the last loop iteration did (observation only)
    \* ---- ProtonHack ----
    acf,       \* the parsed libraryfolders.vdf
    markers,   \* the `version' files on disk: [path, line], line the first line
    dirs,      \* the directories that exist on disk
    environ,   \* os.environ
    pc,        \* "new", "constructed", "raised" ("idle": no resolver)
    raised,    \* the exception __init__ raised and its line, or NoExc
    hack,      \* the fields of the ProtonHack object
    local,     \* the locals of _find_proton_dir: version, proton_dir
    command,   \* the caller's list passed to the last call
    out,       \* what the last call returned and handed to subprocess.run
    op         \* the last method called on the object

parseVars == <<fp, tree, sep, pos, reads, stack, result, ppc, last>>
hackVars  == <<acf, markers, dirs, environ, pc, raised, hack, local, command, out, op>>
vars      == <<fp, tree, sep, pos, reads, stack, result, ppc, last,
               acf, markers, dirs, environ, pc, raised, hack, local, command, out, op>>

---------------------------------------------------------------------------
(* Characters and text *)

TAB == "\t"
SP  == " "
Q   == "\""
LB  == "{"
RB  == "}"
SLASH == "/"
DASH  == "-"

Range(s) == { s[i] : i \in 1..Len(s) }

\* s[a..b], empty when a > b
Sub(s, a, b) == IF a > b THEN <<>> ELSE SubSeq(s, a, b)

RECURSIVE SeqsUpTo(_, _)
SeqsUpTo(S, n) ==
    IF n = 0 THEN { <<>> }
    ELSE LET shorter == SeqsUpTo(S, n - 1)
         IN  shorter \cup { Append(s, x) : s \in { t \in shorter : Len(t) = n - 1 }, x \in S }

---------------------------------------------------------------------------
(* dict *)

Leaf(v) == [leaf |-> TRUE,  v |-> v,    c |-> <<>>]
Obj(d)  == [leaf |-> FALSE, v |-> <<>>, c |-> d]

DictKeys(d) == [ i \in 1..Len(d) |-> d[i].k ]
DictHas(d, k) == \E i \in 1..Len(d) : d[i].k = k
DictGet(d, k) == d[CHOOSE i \in 1..Len(d) : d[i].k = k].n
\* d[k] = n : an existing key keeps its position
DictSet(d, k, n) ==
    IF DictHas(d, k)
    THEN [ i \in 1..Len(d) |-> IF d[i].k = k THEN [k |-> k, n |-> n] ELSE d[i] ]
    ELSE Append(d, [k |-> k, n |-> n])

---------------------------------------------------------------------------
(* The regular expressions of ACFFile, matched with re.match on one line.  *)
(* A line is modelled without its newline; `$' matches at its end.         *)

\* length of the run of tabs starting at index i
RECURSIVE TabRun(_, _)
TabRun(line, i) ==
    IF i <= Len(line) /\ line[i] = TAB THEN 1 + TabRun(line, i + 1) ELSE 0

\* _OBJECT_BEGIN_RE = ^\t*{$
OBJECT_BEGIN_RE(line) ==
    LET t == TabRun(line, 1) IN Len(line) = t + 1 /\ line[t + 1] = LB

\* a closing brace recognised at column 0 only
FinishUnindented(line) == line = <<RB>>

\* _OBJECT_FINISH_RE = ^\t*}$
OBJECT_FINISH_RE(line) ==
    LET t == TabRun(line, 1) IN Len(line) = t + 1 /\ line[t + 1] = RB

\* _OBJECT_NAME_RE = ^\t*"(.+)"$
OBJECT_NAME_RE(line) ==
    LET t == TabRun(line, 1)
    IN  IF Len(line) >= t + 3 /\ line[t + 1] = Q /\ line[Len(line)] = Q
        THEN [m |-> TRUE, key |-> Sub(line, t + 2, Len(line) - 1)]
        ELSE [m |-> FALSE, key |-> <<>>]

\* the positions i of a quote closing group 1 of _KEY_VALUE_RE: the key has
\* at least one character, the quote is followed by one or more tabs, a
\* quote, and the line ends with a later quote
KvSplits(line) ==
    LET t == TabRun(line, 1)
    IN  IF Len(line) >= t + 1 /\ line[t + 1] = Q /\ line[Len(line)] = Q
        THEN { i \in (t + 3)..Len(line) :
                 /\ line[i] = Q
                 /\ TabRun(line, i + 1) >= 1
                 /\ i + TabRun(line, i + 1) + 1 < Len(line)
                 /\ line[i + TabRun(line, i + 1) + 1] = Q }
        ELSE {}

\* the expression with "(.+)" for the value: an empty value does not match
KeyValueNonEmpty(line) ==
    LET t == TabRun(line, 1)
        S == { i \in KvSplits(line) : i + TabRun(line, i + 1) + 2 < Len(line) }
    IN  IF S = {} THEN [m |-> FALSE, key |-> <<>>, value |-> <<>>]
        ELSE LET i == CHOOSE x \in S : \A y \in S : y <= x
                 j == i + TabRun(line, i + 1) + 1
             IN  [m |-> TRUE, key |-> Sub(line, t + 2, i - 1),
                  value |-> Sub(line, j + 1, Len(line) - 1)]

\* _KEY_VALUE_RE = ^\t*"(.+)"\t+"(.*)"$ ; group 1 is greedy
KEY_VALUE_RE(line) ==
    LET t == TabRun(line, 1)
        S == KvSplits(line)
    IN  IF S = {} THEN [m |-> FALSE, key |-> <<>>, value |-> <<>>]
        ELSE LET i == CHOOSE x \in S : \A y \in S : y <= x
                 j == i + TabRun(line, i + 1) + 1
             IN  [m |-> TRUE, key |-> Sub(line, t + 2, i - 1),
                  value |-> Sub(line, j + 1, Len(line) - 1)]

---------------------------------------------------------------------------
(* Input files of the parser *)

MaxLines == 3
MaxNodes == 4

Tabs(n) == [ i \in 1..n |-> TAB ]
Quoted(s) == <<Q>> \o s \o <<Q>>

\* free text: one line of every kind the grammar tells apart, and lines
\* that fall between the kinds
LineSet ==
    { Quoted(<<"a">>),                                   \* key line
      <<TAB>> \o Quoted(<<"b">>),                        \* indented key line
      Quoted(<<"a">>) \o <<TAB>> \o Quoted(<<"x">>),     \* key-value line
      Quoted(<<"b">>) \o <<TAB, TAB>> \o Quoted(<<>>),   \* empty value
      Quoted(<<"a">>) \o <<SP>> \o Quoted(<<"x">>),      \* separated by a space
      Quoted(<<"a">>) \o <<TAB>> \o Quoted(<<"x">>) \o <<TAB>> \o Quoted(<<"y">>),
      <<LB>>, <<RB>>, <<TAB, RB>>,                       \* braces
      <<>>, <<TAB>>,                                     \* blank lines
      <<"a">>, Quoted(<<>>) }                            \* unrecognised

\* the separators a writer following the grammar may put in a key-value line
Separators == { <<TAB, TAB>>, <<SP>> }

Letters == <<"a", "b", "c", "d", "e", "f", "g">>
KeyName(i) == << Letters[i] >>
\* leaf values: empty, plain, and one holding the characters " <tab> "
LeafValues == { <<>>, <<"x">>, <<Q, TAB, Q>> }

\* the dicts with exactly n nodes; the i-th sibling of a level has key KeyName(i)
RECURSIVE Forests(_, _)
Forests(n, i) ==
    IF n = 0 THEN { <<>> }
    ELSE { <<[k |-> KeyName(i), n |-> Leaf(v)]>> \o rest :
               v \in LeafValues, rest \in Forests(n - 1, i + 1) }
         \cup UNION { { <<[k |-> KeyName(i), n |-> Obj(sub)]>> \o rest :
                          sub \in Forests(j, 1), rest \in Forests(n - 1 - j, i + 1) }
                      : j \in 0..(n - 1) }

Trees == UNION { Forests(n, 1) : n \in 0..MaxNodes }

\* a dict written with the grammar: a key-value line for a leaf; key line,
\* object-open line, children, object-close line for a nested dict
RECURSIVE Serialise(_, _, _)
Serialise(d, indent, s) ==
    IF d = <<>> THEN <<>>
    ELSE LET e == Head(d)
             here == IF e.n.leaf
                     THEN << Tabs(indent) \o Quoted(e.k) \o s \o Quoted(e.n.v) >>
                     ELSE << Tabs(indent) \o Quoted(e.k), Tabs(indent) \o <<LB>> >>
                          \o Serialise(e.n.c, indent + 1, s)
                          \o << Tabs(indent) \o <<RB>> >>
         IN  here \o Serialise(Tail(d), indent, s)

---------------------------------------------------------------------------
(* ACFFile._parse, one action per loop iteration *)

NewFrame == [retval |-> <<>>, key |-> <<>>, line |-> <<>>]
Top == stack[Len(stack)]

\* `for line in fp' yields the next line of the shared iterator
NextLine(p) == p + 1

\* the cursor the recursive call reads from: `self._parse(fp)' hands the
\* same iterator on, so the callee goes on where the caller stands
Restarted(p) == 1
CalleeCursor(p) == p

\* the frame on top of s replaced by f
SetTop(s, f) == [s EXCEPT ![Len(s)] = f]

\* `return retval' of the innermost call.  The caller stores the returned
\* dict under the key of its current line, then runs its own
\* _OBJECT_FINISH_RE test on that line and breaks if it matches.
RECURSIVE ReturnFrom(_)
ReturnFrom(s) ==
    IF Len(s) = 1 THEN [stack |-> <<>>, done |-> TRUE, result |-> s[1].retval]
    ELSE LET child  == s[Len(s)]
             parent == s[Len(s) - 1]
             stored == [parent EXCEPT !.retval = DictSet(@, parent.key, Obj(child.retval))]
             s2     == SetTop(SubSeq(s, 1, Len(s) - 1), stored)
         IN  IF OBJECT_FINISH_RE(parent.line) THEN ReturnFrom(s2)
             ELSE [stack |-> s2, done |-> FALSE, result |-> <<>>]

\* the recursive call `retval[key] = self._parse(fp)': the caller keeps its
\* key and line, the callee starts with an empty dict on the same cursor
CallParse(s, key, line) ==
    Append(SetTop(s, [s[Len(s)] EXCEPT !.key = key, !.line = line]), NewFrame)

Reading == ppc = "parsing" /\ pos <= Len(fp)
Line == fp[pos]

Advance(kind) ==
    /\ pos' = IF kind = "name" THEN CalleeCursor(NextLine(pos)) ELSE NextLine(pos)
    /\ reads' = [reads EXCEPT ![pos] = @ + 1]
    /\ last' = [kind |-> kind, line |-> Line, depth |-> Len(stack)]
    /\ UNCHANGED <<fp, tree, sep>>
    /\ UNCHANGED hackVars

Finish(r) ==
    /\ stack' = r.stack
    /\ result' = IF r.done THEN r.result ELSE result
    /\ ppc' = IF r.done THEN "done" ELSE ppc

\* lines 39-41
ObjectBegin ==
    /\ Reading
    /\ OBJECT_BEGIN_RE(Line)
    /\ Advance("begin")
    /\ UNCHANGED <<stack, result, ppc>>

\* lines 43-46, then 53-55
KeyValue ==
    /\ Reading
    /\ ~OBJECT_BEGIN_RE(Line)
    /\ KEY_VALUE_RE(Line).m
    /\ Advance("kv")
    /\ LET kv == KEY_VALUE_RE(Line)
           s2 == SetTop(stack, [Top EXCEPT !.retval = DictSet(@, kv.key, Leaf(kv.value))])
       IN  IF OBJECT_FINISH_RE(Line) THEN Finish(ReturnFrom(s2))
           ELSE stack' = s2 /\ UNCHANGED <<result, ppc>>

\* lines 48-51
ObjectName ==
    /\ Reading
    /\ ~OBJECT_BEGIN_RE(Line)
    /\ ~KEY_VALUE_RE(Line).m
    /\ OBJECT_NAME_RE(Line).m
    /\ Advance("name")
    /\ stack' = CallParse(stack, OBJECT_NAME_RE(Line).key, Line)
    /\ UNCHANGED <<result, ppc>>

\* lines 53-55
ObjectFinish ==
    /\ Reading
    /\ ~OBJECT_BEGIN_RE(Line)
    /\ ~KEY_VALUE_RE(Line).m
    /\ ~OBJECT_NAME_RE(Line).m
    /\ OBJECT_FINISH_RE(Line)
    /\ Advance("finish")
    /\ Finish(ReturnFrom(stack))

\* a line no expression matches
Ignored ==
    /\ Reading
    /\ ~OBJECT_BEGIN_RE(Line)
    /\ ~KEY_VALUE_RE(Line).m
    /\ ~OBJECT_NAME_RE(Line).m
    /\ ~OBJECT_FINISH_RE(Line)
    /\ Advance("ignored")
    /\ UNCHANGED <<stack, result, ppc>>

\* the iterator is exhausted: the for loop of the innermost call ends
Exhausted ==
    /\ ppc = "parsing"
    /\ pos > Len(fp)
    /\ Finish(ReturnFrom(stack))
    /\ last' = [kind |-> "eof", line |-> <<>>, depth |-> Len(stack)]
    /\ UNCHANGED <<fp, tree, sep, pos, reads>>
    /\ UNCHANGED hackVars

HackIdle ==
    /\ acf = <<>> /\ markers = {} /\ dirs = {} /\ environ = <<>>
    /\ pc = "idle" /\ raised = <<>> /\ hack = <<>> /\ local = <<>>
    /\ command = <<>> /\ out = <<>> /\ op = "none"

ParseStart ==
    /\ pos = 1
    /\ reads = [ i \in 1..Len(fp) |-> 0 ]
    /\ stack = << NewFrame >>
    /\ result = <<>>
    /\ ppc = "parsing"
    /\ last = [kind |-> "none", line |-> <<>>, depth |-> 0]

ParseInit ==
    /\ \/ fp \in SeqsUpTo(LineSet, MaxLines) /\ tree = <<>> /\ sep = <<>>
       \/ /\ tree \in Trees
          /\ sep \in Separators
          /\ fp = Serialise(tree, 0, sep)
    /\ ParseStart
    /\ HackIdle

ParseNext ==
    \/ ObjectBegin
    \/ KeyValue
    \/ ObjectName
    \/ ObjectFinish
    \/ Ignored
    \/ Exhausted

\* the loop runs to its end: the interpreter does not stop in mid-call
SpecParse == ParseInit /\ [][ParseNext]_vars /\ WF_vars(ParseNext)

---------------------------------------------------------------------------
(* Claims about the parser *)

\* a key-value line as the grammar words it: optional tabs, a quoted
\* non-empty key, one or more separator characters out of S, a quoted value
RECURSIVE SepRun(_, _, _)
SepRun(line, i, S) ==
    IF i <= Len(line) /\ line[i] \in S THEN 1 + SepRun(line, i + 1, S) ELSE 0

KeyValueReadings(line, S) ==
    LET t == TabRun(line, 1)
    IN  IF Len(line) >= t + 1 /\ line[t + 1] = Q /\ line[Len(line)] = Q
        THEN { [key |-> Sub(line, t + 2, i - 1),
                value |-> Sub(line, i + SepRun(line, i + 1, S) + 2, Len(line) - 1)] :
               i \in { x \in (t + 3)..Len(line) :
                         /\ line[x] = Q
                         /\ SepRun(line, x + 1, S) >= 1
                         /\ x + SepRun(line, x + 1, S) + 1 < Len(line)
                         /\ line[x + SepRun(line, x + 1, S) + 1] = Q } }
        ELSE {}

\* the line just read was stored as a leaf of the level that read it, and
\* no recursive parse was started for it
StoredAsLeaf(S) ==
    KeyValueReadings(last.line, S) # {} =>
        /\ ppc = "parsing"
        /\ Len(stack) = last.depth
        /\ \E r \in KeyValueReadings(last.line, S) :
              /\ DictHas(Top.retval, r.key)
              /\ DictGet(Top.retval, r.key) = Leaf(r.value)

NoQuote(s) == Q \notin Range(s)

RECURSIVE PlainText(_)
PlainText(d) ==
    \A i \in 1..Len(d) :
        /\ d[i].k # <<>> /\ NoQuote(d[i].k)
        /\ IF d[i].n.leaf THEN NoQuote(d[i].n.v) ELSE PlainText(d[i].n.c)

RECURSIVE Depth(_)
Depth(d) ==
    IF d = <<>> THEN 0
    ELSE LET h == IF Head(d).n.leaf THEN 1 ELSE 1 + Depth(Head(d).n.c)
             r == Depth(Tail(d))
         IN  IF h > r THEN h ELSE r

Written == sep # <<>>

C8_RoundTripAnySeparator ==
    (ppc = "done" /\ Written) => result = tree

\* C8 amended: a tree whose keys are non-empty and whose keys and values
\* hold no double quote, written with tabs between key and value, parses
\* back to the same tree.
C8_RoundTripTabs ==
    (ppc = "done" /\ Written /\ Range(sep) = {TAB} /\ PlainText(tree)) => result = tree

\* C8 witness: a tree three levels deep with an empty leaf value was
\* written with tabs and parsed back.
C8_Witness ==
    /\ ppc = "done" /\ Written /\ Range(sep) = {TAB} /\ PlainText(tree)
    /\ Depth(tree) >= 3 /\ Len(tree) >= 2
    /\ tree[2].n = Leaf(<<>>)
    /\ result = tree

\* C9 as stated: a key-value line whose separator is made of tabs or of
\* spaces is stored as a leaf of the current level and starts no nested parse.
C9_KeyValueTabsOrSpaces == StoredAsLeaf({TAB, SP})

\* C9 amended: a key-value line whose separator is made of tabs is stored
\* as a leaf of the current level and starts no nested parse.
C9_KeyValueTabs == StoredAsLeaf({TAB})

\* C9 witness: a key-value line with an empty value was read inside a
\* nested level and stored there.
C9_Witness ==
    /\ ppc = "parsing" /\ Len(stack) >= 2 /\ Len(stack) = last.depth
    /\ \E r \in KeyValueReadings(last.line, {TAB}) :
          r.value = <<>> /\ DictHas(Top.retval, r.key)
                         /\ DictGet(Top.retval, r.key) = Leaf(<<>>)

---------------------------------------------------------------------------
(* Text conversions used by ProtonHack.  A symbol of a text is one         *)
(* character, or a word of letters that holds none of / - . space.         *)

NL  == "\n"
DOT == "."

\* rlbot.setup_manager.ROCKET_LEAGUE_PROCESS_INFO.GAMEID
GAMEID == 252950

Digits == <<"0", "1", "2", "3", "4", "5", "6", "7", "8", "9">>

\* str() of a non-negative int
RECURSIVE Str(_)
Str(n) == IF n < 10 THEN << Digits[n + 1] >>
          ELSE Str(n \div 10) \o << Digits[(n % 10) + 1] >>

\* index of the first d in text, 0 when there is none
FirstIndex(text, d) ==
    IF d \in Range(text)
    THEN CHOOSE i \in 1..Len(text) : text[i] = d /\ \A j \in 1..(i - 1) : text[j] # d
    ELSE 0

\* str.split(d): every d separates, empty pieces are kept
RECURSIVE Split(_, _)
Split(text, d) ==
    LET i == FirstIndex(text, d)
    IN  IF i = 0 THEN << text >>
        ELSE << Sub(text, 1, i - 1) >> \o Split(Sub(text, i + 1, Len(text)), d)

Whitespace == { SP, TAB, NL }

\* str.strip()
RECURSIVE Strip(_)
Strip(text) ==
    IF text = <<>> THEN text
    ELSE IF text[1] \in Whitespace THEN Strip(Tail(text))
    ELSE IF text[Len(text)] \in Whitespace THEN Strip(Sub(text, 1, Len(text) - 1))
    ELSE text

RECURSIVE Join(_, _)
Join(parts, d) ==
    IF parts = <<>> THEN <<>>
    ELSE IF Len(parts) = 1 THEN parts[1]
    ELSE parts[1] \o <<d>> \o Join(Tail(parts), d)

\* pathlib.Path (POSIX): None, or a path of components
NonePath == [tag |-> "none", abs |-> FALSE, parts |-> <<>>]
Unset    == [tag |-> "unset", abs |-> FALSE, parts |-> <<>>]

IsComponent(c) == c # <<>> /\ c # <<DOT>>

\* Path(text): empty and `.' components are dropped
Path(text) ==
    [tag |-> "path",
     abs |-> (text # <<>> /\ text[1] = SLASH),
     parts |-> SelectSeq(Split(text, SLASH), IsComponent)]

\* p.joinpath(text): an absolute text replaces p
JoinPath(p, text) ==
    IF Path(text).abs THEN Path(text)
    ELSE [p EXCEPT !.parts = @ \o Path(text).parts]

\* str(p)
PathStr(p) ==
    IF p.abs THEN <<SLASH>> \o Join(p.parts, SLASH)
    ELSE IF p.parts = <<>> THEN <<DOT>>
    ELSE Join(p.parts, SLASH)

---------------------------------------------------------------------------
(* The files and directories ProtonHack reads *)

MaxEntries == 2
MaxCmd == 2

LIBRARYFOLDERS == <<"libraryfolders">>
APPMANIFEST    == <<"appmanifest">>
PATH  == <<"path">>
APPS  == <<"apps">>
LABEL == <<"label">>
STEAM_COMPAT_DATA_PATH == <<"STEAM_COMPAT_DATA_PATH">>
RUNINPREFIX == <<"runinprefix">>

\* the application ids a library may list
GAME  == <<"2", "5", "2", "9", "5", "0">>
OTHER_APP == <<"2", "5">>

\* two library roots, as the text of their `path' leaf and as components
RootA == <<SLASH, "mnt", SLASH, "data">>
RootB == <<SLASH, "home", SLASH, "lib">>
Roots == { RootA, RootB }
RootParts(r) == IF r = RootA THEN << <<"mnt">>, <<"data">> >>
                ELSE << <<"home">>, <<"lib">> >>

AppsDicts ==
    { <<>>,
      << [k |-> OTHER_APP, n |-> Leaf(<<"1">>)] >>,
      << [k |-> OTHER_APP, n |-> Leaf(<<"1">>)], [k |-> GAME, n |-> Leaf(<<"2">>)] >> }

\* the values of the children of "libraryfolders": a leaf, an object
\* without `apps', an object with a `path' leaf and an `apps' object
EntryValues ==
    { Leaf(<<"x">>) }
    \cup { Obj(<< [k |-> PATH, n |-> Leaf(RootA)] >>) }
    \cup { Obj(<< [k |-> PATH, n |-> Leaf(r)], [k |-> LABEL, n |-> Leaf(<<>>)],
                  [k |-> APPS, n |-> Obj(a)] >>) : r \in Roots, a \in AppsDicts }

\* children keyed "0", "1", ... as Steam writes them
Keyed(es) == [ i \in 1..Len(es) |-> [k |-> Str(i - 1), n |-> es[i]] ]

LibraryFiles ==
    { << [k |-> LIBRARYFOLDERS, n |-> Obj(Keyed(es))] >> :
          es \in SeqsUpTo(EntryValues, MaxEntries) }

\* the parsed appmanifest_<id>.acf; nothing reads its contents
AppManifest == << [k |-> <<"AppState">>, n |-> Obj(<<>>)] >>

V70  == <<"7", DOT, "0">>
V80  == <<"8", DOT, "0">>
ProtonName(v) == <<"Proton", SP>> \o v

AbsPath(parts) == [tag |-> "path", abs |-> TRUE, parts |-> parts]
CompatDirOf(r) == AbsPath(RootParts(r) \o << <<"steamapps">>, <<"compatdata">>, GAME >>)
VersionFileOf(r) == AbsPath(CompatDirOf(r).parts \o << <<"version">> >>)
ProtonDirOf(r, v) == AbsPath(RootParts(r) \o << <<"steamapps">>, <<"common">>, ProtonName(v) >>)

\* first lines of a `version' file: <version>-<build>, a build that holds
\* a further dash, and a line without any dash
MarkerLinesA ==
    { V70 \o <<DASH, "6", NL>>,
      V80 \o <<DASH, "5", NL>>,
      V70 \o <<DASH, "6", DASH, "1", NL>>,
      V70 \o <<NL>> }
\* the application was only ever run from library A
MarkerSets ==
    { {} } \cup { { [path |-> VersionFileOf(RootA), line |-> l] } : l \in MarkerLinesA }

ProtonDirs == { ProtonDirOf(RootA, V70), ProtonDirOf(RootB, V70) }

\* a version file lies in its compatdata directory
DirsFor(ms, ps) == ps \cup { AbsPath(Sub(m.path.parts, 1, Len(m.path.parts) - 1)) : m \in ms }

Environs ==
    { <<>>,
      << [k |-> <<"HOME">>, n |-> Leaf(<<SLASH, "root">>)],
         [k |-> STEAM_COMPAT_DATA_PATH, n |-> Leaf(<<SLASH, "stale">>)] >> }

Commands == SeqsUpTo({ <<"foo">>, <<"bar">> }, MaxCmd)
\* the commands run_in_proton_prefix is called with
RunCommands == { <<>>, << <<"foo">>, <<"bar">> >> }

NoneEnv    == [none |-> TRUE,  map |-> <<>>]
SomeEnv(d) == [none |-> FALSE, map |-> d]
EnvArgs == { NoneEnv, SomeEnv(<< [k |-> <<"WINEDEBUG">>, n |-> Leaf(<<"-all">>)] >>) }

\* Path.exists()
PathExists(p) == p \in dirs \/ \E m \in markers : m.path = p
\* open(p).readline()
ReadLine(p) == (CHOOSE m \in markers : m.path = p).line

---------------------------------------------------------------------------
(* ProtonHack *)

NoExc == [exc |-> "none", line |-> 0]
Exc(name, line) == [exc |-> name, line |-> line]

NewHack ==
    [acf |-> <<>>, library_base_dir |-> Unset, compat_data |-> Unset,
     proton_base_dir |-> Unset, proton_bin |-> Unset, env |-> <<>>]
NoLocal == [version |-> <<>>, proton_dir |-> <<>>]

\* dict.update(other) on d
Update(d, other) ==
    LET RECURSIVE Put(_, _)
        Put(acc, i) == IF i > Len(other) THEN acc
                       ELSE Put(DictSet(acc, other[i].k, other[i].n), i + 1)
    IN  Put(d, 1)

\* what `dict(os.environ).update(self.env)' evaluates to: dict.update
\* changes the temporary copy and returns None
UpdateValue(d, other) == NoneEnv

LibraryFoldersOf(h) == DictGet(h.acf, LIBRARYFOLDERS).c

\* the loop of _locate_library_folder from entry i on: the index k the
\* loop breaks at with found = True, 0 when it runs out with found = False
RECURSIVE LocateFrom(_, _)
LocateFrom(lf, i) ==
    IF i > Len(lf) THEN 0
    ELSE LET v == lf[i].n
         IN  IF v.leaf THEN LocateFrom(lf, i + 1)
             ELSE IF ~DictHas(v.c, APPS) THEN LocateFrom(lf, i + 1)
             ELSE IF Str(GAMEID) \notin Range(DictKeys(DictGet(v.c, APPS).c))
                  THEN LocateFrom(lf, i + 1)
             ELSE IF \E j \in 1..Len(DictGet(v.c, APPS).c) :
                        DictGet(v.c, APPS).c[j].k = Str(GAMEID)
                  THEN i
             ELSE LocateFrom(lf, i + 1)

LocateLast(h) ==
    LET lf == LibraryFoldersOf(h)
        S  == { i \in 1..Len(lf) : LocateFrom(lf, i) = i }
    IN  IF S = {} THEN NonePath
        ELSE Path(DictGet(lf[CHOOSE i \in S : \A j \in S : j <= i].n.c, PATH).v)

\* _locate_library_folder
LocateLibraryFolder(h) ==
    LET lf == LibraryFoldersOf(h)
        k  == LocateFrom(lf, 1)
    IN  IF k = 0 THEN NonePath
        ELSE Path(DictGet(lf[k].n.c, PATH).v)

\* the loop of _find_proton_dir from entry i on
RECURSIVE ScanFrom(_, _, _)
ScanFrom(lf, i, proton_dir) ==
    IF i > Len(lf) THEN NonePath
    ELSE LET v == lf[i].n
         IN  IF v.leaf THEN ScanFrom(lf, i + 1, proton_dir)
             ELSE IF ~DictHas(v.c, APPS) THEN ScanFrom(lf, i + 1, proton_dir)
             ELSE LET path == JoinPath(Path(DictGet(v.c, PATH).v),
                                       <<"steamapps", SLASH, "common", SLASH>>
                                           \o proton_dir \o <<SLASH>>)
                  IN  IF PathExists(path) THEN path
                      ELSE ScanFrom(lf, i + 1, proton_dir)

OwnLibraryOnly(h, proton_dir) ==
    LET path == JoinPath(h.library_base_dir,
                         <<"steamapps", SLASH, "common", SLASH>> \o proton_dir \o <<SLASH>>)
    IN  IF PathExists(path) THEN path ELSE NonePath

\* lines 113-120
ScanLibraries(h, proton_dir) == ScanFrom(LibraryFoldersOf(h), 1, proton_dir)

\* _find_proton_dir: the value returned or the exception raised, and the
\* locals it computed on the way
FindProtonDir(h) ==
    LET version_file == JoinPath(h.compat_data, <<"version">>)
    IN  IF ~PathExists(version_file)
        THEN [exc |-> NoExc, value |-> NonePath, local |-> NoLocal]
        ELSE LET version == Strip(ReadLine(version_file))
                 pieces  == Split(version, DASH)
             IN  IF Len(pieces) # 2
                 THEN \* `proton_version, _ = ...' unpacks exactly two values
                      [exc |-> Exc("ValueError", 110), value |-> NonePath,
                       local |-> [version |-> version, proton_dir |-> <<>>]]
                 ELSE LET proton_dir == ProtonName(pieces[1])
                      IN  [exc |-> NoExc, value |-> ScanLibraries(h, proton_dir),
                           local |-> [version |-> version, proton_dir |-> proton_dir]]

EnvFromRuntime(h) ==
    DictSet(<<>>, STEAM_COMPAT_DATA_PATH, Leaf(PathStr(h.proton_base_dir)))

\* _prepare_env
PrepareEnv(h) ==
    DictSet(<<>>, STEAM_COMPAT_DATA_PATH, Leaf(PathStr(h.compat_data)))

CmdAppended(h, c) == c \o << PathStr(h.proton_bin), RUNINPREFIX >>

\* prefix_proton_cmd
PrefixProtonCmd(h, c) == << PathStr(h.proton_bin), RUNINPREFIX >> \o c

\* subprocess.run(args, env=env): with env None the child inherits os.environ
SubprocessRun(args, env, os_environ) ==
    [args |-> args, env |-> IF env.none THEN os_environ ELSE env.map]

\* __init__, lines 70-86: the state it leaves, [pc, raised, hack, local]
Constructed(libraryfolders, appmanifest) ==
    LET h0 == [NewHack EXCEPT
                 !.acf = DictSet(Update(<<>>, libraryfolders), APPMANIFEST, Obj(appmanifest))]
        h1 == [h0 EXCEPT !.library_base_dir = LocateLibraryFolder(h0)]
    IN  IF h1.library_base_dir.tag = "none"
        THEN [pc |-> "raised", raised |-> Exc("AttributeError", 83), hack |-> h1,
              local |-> NoLocal]
        ELSE
    LET h2 == [h1 EXCEPT !.compat_data =
                 JoinPath(h1.library_base_dir,
                          <<"steamapps", SLASH, "compatdata", SLASH>> \o Str(GAMEID) \o <<SLASH>>)]
        f  == FindProtonDir(h2)
    IN  IF f.exc # NoExc
        THEN [pc |-> "raised", raised |-> f.exc, hack |-> h2, local |-> f.local]
        ELSE
    LET h3 == [h2 EXCEPT !.proton_base_dir = f.value]
    IN  IF h3.proton_base_dir.tag = "none"
        THEN [pc |-> "raised", raised |-> Exc("AttributeError", 85), hack |-> h3,
              local |-> f.local]
        ELSE
    LET h4 == [h3 EXCEPT !.proton_bin = JoinPath(h3.proton_base_dir, <<"proton">>)]
        h5 == [h4 EXCEPT !.env = PrepareEnv(h4)]
    IN  [pc |-> "constructed", raised |-> NoExc, hack |-> h5, local |-> f.local]

\* ProtonHack()
Construct ==
    /\ pc = "new"
    /\ LET r == Constructed(acf, AppManifest)
       IN  /\ pc' = r.pc
           /\ raised' = r.raised
           /\ hack' = r.hack
           /\ local' = r.local
    /\ UNCHANGED <<acf, markers, dirs, environ, command, out, op>>
    /\ UNCHANGED parseVars

NoOut == [ret |-> <<>>, flag |-> FALSE, args |-> <<>>, env |-> <<>>]

\* compat_data_exists()
CompatDataExists ==
    /\ pc = "constructed"
    /\ op' = "compat_data_exists"
    /\ out' = [NoOut EXCEPT !.flag = PathExists(hack.compat_data)]
    /\ command' = <<>>
    /\ UNCHANGED <<acf, markers, dirs, environ, pc, raised, hack, local>>
    /\ UNCHANGED parseVars

\* prefix_proton_cmd(command)
PrefixProtonCmdCall ==
    /\ pc = "constructed"
    /\ \E c \in Commands :
          /\ command' = c
          /\ out' = [NoOut EXCEPT !.ret = PrefixProtonCmd(hack, c)]
    /\ op' = "prefix_proton_cmd"
    /\ UNCHANGED <<acf, markers, dirs, environ, pc, raised, hack, local>>
    /\ UNCHANGED parseVars

\* run_in_proton_prefix(command, env), lines 91-96, in a process whose
\* environment is e
RunInProtonPrefix ==
    /\ pc = "constructed"
    /\ \E c \in RunCommands, given \in EnvArgs, e \in Environs :
          LET args == PrefixProtonCmd(hack, c)
              env  == IF given.none THEN UpdateValue(e, hack.env) ELSE given
              run  == SubprocessRun(args, env, e)
          IN  /\ command' = c
              /\ environ' = e
              /\ out' = [NoOut EXCEPT !.flag = given.none, !.args = run.args, !.env = run.env]
    /\ op' = "run_in_proton_prefix"
    /\ UNCHANGED <<acf, markers, dirs, pc, raised, hack, local>>
    /\ UNCHANGED parseVars

ParseIdle ==
    /\ fp = <<>> /\ tree = <<>> /\ sep = <<>> /\ pos = 1 /\ reads = <<>>
    /\ stack = <<>> /\ result = <<>> /\ ppc = "idle"
    /\ last = [kind |-> "none", line |-> <<>>, depth |-> 0]

Init ==
    /\ acf \in LibraryFiles
    /\ markers \in MarkerSets
    /\ \E ps \in SUBSET ProtonDirs : dirs = DirsFor(markers, ps)
    /\ environ = <<>>
    /\ pc = "new" /\ raised = NoExc /\ hack = NewHack /\ local = NoLocal
    /\ command = <<>> /\ out = NoOut /\ op = "none"
    /\ ParseIdle

Next ==
    \/ Construct
    \/ CompatDataExists
    \/ PrefixProtonCmdCall
    \/ RunInProtonPrefix

Spec == Init /\ [][Next]_vars

---------------------------------------------------------------------------
(* Claims about the resolver, stated on the files it was given *)

Entries == DictGet(acf, LIBRARYFOLDERS).c
Resolved == pc \in { "constructed", "raised" }

HasApps(i) == ~Entries[i].n.leaf /\ DictHas(Entries[i].n.c, APPS)
EntryRoot(i) == DictGet(Entries[i].n.c, PATH).v
\* the entries whose `apps' lists the application
Listing ==
    { i \in 1..Len(Entries) :
        HasApps(i) /\ GAME \in Range(DictKeys(DictGet(Entries[i].n.c, APPS).c)) }
First(S) == CHOOSE i \in S : \A j \in S : i <= j
RootPath(r) == AbsPath(RootParts(r))

\* the version marker of the library the application is in
MarkerOfApp == { m \in markers : Listing # {} /\ m.path = VersionFileOf(EntryRoot(First(Listing))) }
MarkerText == Strip((CHOOSE m \in MarkerOfApp : TRUE).line)
Dashes(text) == { i \in 1..Len(text) : text[i] = DASH }
BeforeFirstDash(text) == Sub(text, 1, First(Dashes(text)) - 1)

\* the entries with an `apps' child under which the runtime directory
\* named `name' exists
RuntimeAt(i, name) == AbsPath(RootParts(EntryRoot(i)) \o << <<"steamapps">>, <<"common">>, name >>)
WithRuntime(name) == { i \in 1..Len(Entries) : HasApps(i) /\ RuntimeAt(i, name) \in dirs }

AppNotListed    == Listing = {}
MarkerAbsent    == Listing # {} /\ MarkerOfApp = {}
RuntimeDirAbsent ==
    /\ MarkerOfApp # {}
    /\ Cardinality(Dashes(MarkerText)) = 1
    /\ WithRuntime(ProtonName(BeforeFirstDash(MarkerText))) = {}

\* C1: when no entry lists the application, or the version marker is
\* absent, or no runtime directory exists, construction completes without
\* an exception.
C1_AbsenceDoesNotRaise ==
    (Resolved /\ (AppNotListed \/ MarkerAbsent \/ RuntimeDirAbsent)) =>
        (pc = "constructed" /\ raised = NoExc)

\* C2: _locate_library_folder returns the path of the first entry, in
\* document order, whose apps lists the application, and None, raising
\* nothing itself, when no entry lists it.
C2_FirstListingEntry ==
    Resolved =>
        /\ hack.library_base_dir =
              IF Listing = {} THEN NonePath ELSE RootPath(EntryRoot(First(Listing)))
        /\ raised.line \notin 122..141

\* C2 witness: two entries with different paths list the application and
\* the path of the first one was returned.
C2_Witness ==
    /\ Resolved /\ Cardinality(Listing) = 2
    /\ EntryRoot(1) # EntryRoot(2)
    /\ hack.library_base_dir = RootPath(EntryRoot(1))

\* C3: a marker holding at least one dash is split on its first dash only:
\* the runtime directory name is "Proton " and the text before that dash,
\* and the split does not raise.
C3_SplitOnFirstDash ==
    (Resolved /\ MarkerOfApp # {} /\ Dashes(MarkerText) # {}) =>
        /\ local.proton_dir = ProtonName(BeforeFirstDash(MarkerText))
        /\ raised.line # 110

C5_EnvIsCompatDataOfLibrary ==
    pc = "constructed" =>
        hack.env = << [k |-> STEAM_COMPAT_DATA_PATH,
                       n |-> Leaf(EntryRoot(First(Listing))
                                    \o <<SLASH, "steamapps", SLASH, "compatdata", SLASH>>
                                    \o GAME)] >>

\* C5 witness: resolution succeeded with the runtime found in library B
\* while the application is in library A.
C5_Witness ==
    /\ pc = "constructed"
    /\ EntryRoot(First(Listing)) = RootA
    /\ hack.proton_base_dir = ProtonDirOf(RootB, V70)
    /\ Len(hack.env) = 1

\* C6: prefix_proton_cmd(c) returns [str(<runtime dir>/proton),
\* "runinprefix"] followed by c, and changes neither c nor the object.
C6_PrefixIsPrependedFrameKept ==
    [][ op' = "prefix_proton_cmd" =>
          /\ out'.ret = << PathStr(hack.proton_base_dir) \o <<SLASH, "proton">>,
                           RUNINPREFIX >> \o command'
          /\ hack' = hack
          /\ <<acf, markers, dirs, environ, pc, raised, local>>' =
             <<acf, markers, dirs, environ, pc, raised, local>> ]_vars

\* C6 witness: a call with a two-element command returned the two prefix
\* elements followed by the command.
C6_Witness ==
    /\ op = "prefix_proton_cmd"
    /\ command = << <<"foo">>, <<"bar">> >>
    /\ Len(out.ret) = 4 /\ out.ret[2] = RUNINPREFIX
    /\ out.ret[3] = <<"foo">> /\ out.ret[4] = <<"bar">>

\* C10: called without env, run_in_proton_prefix hands the child the
\* inherited environment overridden by the resolver's mapping, so that
\* STEAM_COMPAT_DATA_PATH is the compat-data path.
C10_ChildEnvIsMerged ==
    (op = "run_in_proton_prefix" /\ out.flag) =>
        /\ out.args = << PathStr(hack.proton_bin), RUNINPREFIX >> \o command
        /\ DictHas(out.env, STEAM_COMPAT_DATA_PATH)
        /\ DictGet(out.env, STEAM_COMPAT_DATA_PATH) = Leaf(PathStr(hack.compat_data))
        /\ \A i \in 1..Len(environ) : DictHas(out.env, environ[i].k)

====
